---------------------------- MODULE Spec2Model ----------------------------
(***************************************************************************)
(* The econometric pipeline of src/src/main.py (EconometricAnalysis) over  *)
(* src/src/statistical_analysis.py (StatisticalAnalyzer).                  *)
(*                                                                         *)
(* main() builds one EconometricAnalysis and calls run_analysis() once;    *)
(* run_analysis() collects the data, runs the statistical steps one after  *)
(* the other, draws the charts and renders the report.  Every statement    *)
(* of _perform_statistical_analysis is one action.                         *)
(*                                                                         *)
(* Numbers.  The statistics the numerical libraries return are floats.     *)
(* A float is modelled as a record [nan, v]: p-values are held in          *)
(* thousandths (0.05 is 50), the Durbin-Watson statistic in hundredths     *)
(* (1.5 is 150).  NaN is a float on which every ordered comparison is      *)
(* false, as in Python.                                                    *)
(***************************************************************************)
EXTENDS Integers, Sequences, FiniteSets, TLC

VARIABLES
    config,     \* ANALYSIS_CONFIG of config.py, as deployed
    pc,         \* position of main() / run_analysis()
    data,       \* EconometricAnalysis.data (None before the collection)
    stats,      \* EconometricAnalysis.stats, a dict: key -> result
    models,     \* EconometricAnalysis.models, a dict: key -> fit
    ols_fits,   \* how many times run_ols_regression has fitted sm.OLS
    wls_fits,   \* how many times run_wls_regression has fitted sm.WLS
    bg_nlags,   \* the nlags handed to acorr_breusch_godfrey: {} before the call
    log,        \* what the logger has written, in order
    exit_code,  \* the status main() ends with: {} while it runs
    raw,        \* merge_datasets' frame after pd.merge, before dropna
    used_fit,   \* the OLS fit each consumer of residuals worked on
    np_random,  \* the state of numpy's global random generator
    calls,      \* the analyzer methods a client called, with their results
    analyzer,   \* the y and X a client's StatisticalAnalyzer holds
    report,     \* what generate_full_report rendered: {} before it has
    df_merged,  \* DataCollector.df_merged: {} for None
    collector_pc, \* position of a DataCollector client in collect_all_data
    frames,     \* collect_all_data's local frames: df_dj, df_co2, df_merged
    collector_log \* how each collect_all_data and get_data_summary call ended

\* the state of a DataCollector client
collector_vars == <<df_merged, collector_pc, frames, collector_log>>

\* what the pipeline's steps leave alone
client_vars == <<np_random, calls, analyzer, collector_vars>>

vars == <<config, pc, data, stats, models, ols_fits, wls_fits, bg_nlags, log, exit_code,
          raw, used_fit, np_random, calls, analyzer, report, df_merged, collector_pc,
          frames, collector_log>>

----------------------------------------------------------------------------
(* Floats *)

F(x) == [nan |-> FALSE, v |-> x]

NaN == [nan |-> TRUE, v |-> 0]

\* a < b on floats: false as soon as one side is NaN
Lt(a, b) == ~a.nan /\ ~b.nan /\ a.v < b.v

\* a > b on floats
Gt(a, b) == ~a.nan /\ ~b.nan /\ a.v > b.v

----------------------------------------------------------------------------
(* The literals of statistical_analysis.py *)

\* 0.05, in thousandths
Alpha == 50

\* 1.5 and 2.5, in hundredths
DwLow == 150

DwHigh == 250

\* nlags=10
BgLags == 10

\* random_state=42
Seed == 42

\* sample_size: int = 5000
DefaultSampleSize == 5000

----------------------------------------------------------------------------
(* The inputs *)

\* p-values below, at and above 0.05 (thousandths)
PValues == {F(30), F(50), F(70)}

\* Durbin-Watson statistics around both thresholds (hundredths)
DwValues == {F(149), F(150), F(250), F(251)}

\* ANALYSIS_CONFIG: the significance level (thousandths) and the lag count
Configs == [significance_level : {10, 50}, autocorrelation_lags : {5, 10}]

\* What the libraries compute from the two series of a dataset: shapiro's
\* and adfuller's p-values for DJI_Close and for CO2_Level.
SeriesParts ==
    [shapiro_dji : PValues, shapiro_co2 : PValues, adf_dji : PValues, adf_co2 : PValues]

\* What they compute from the OLS residuals of a dataset: the LM p-values
\* of het_breuschpagan, het_white and acorr_breusch_godfrey and the
\* durbin_watson statistic.  Residuals that are all zero make each of them
\* 0/0, which is NaN.
ResidualParts ==
    [bp_lm_p : PValues, white_lm_p : PValues, bg_lm_p : PValues, dw : DwValues]
        \cup {[bp_lm_p |-> NaN, white_lm_p |-> NaN, bg_lm_p |-> NaN, dw |-> NaN]}

BaseSeries == [shapiro_dji |-> F(70), shapiro_co2 |-> F(70), adf_dji |-> F(70), adf_co2 |-> F(70)]

BaseResiduals == [bp_lm_p |-> F(70), white_lm_p |-> F(70), bg_lm_p |-> F(70), dw |-> F(150)]

Dataset(sp, rp) ==
    [ shapiro_dji |-> sp.shapiro_dji, shapiro_co2 |-> sp.shapiro_co2,
      adf_dji |-> sp.adf_dji, adf_co2 |-> sp.adf_co2,
      bp_lm_p |-> rp.bp_lm_p, white_lm_p |-> rp.white_lm_p,
      bg_lm_p |-> rp.bg_lm_p, dw |-> rp.dw ]

\* The merged datasets a collection may return: every series part with
\* unremarkable residuals, and every residual part with unremarkable series.
Datasets ==
    {Dataset(sp, BaseResiduals) : sp \in SeriesParts}
        \cup {Dataset(BaseSeries, rp) : rp \in ResidualParts}

\* self.data = None
NoData == [none |-> TRUE]

----------------------------------------------------------------------------
(* Frames: the rows of a dataset *)

\* one row of the merged frame; a missing value is NaN
Row(date, dji, co2) == [Date |-> date, DJI_Close |-> dji, CO2_Level |-> co2]

\* a row dropna() keeps: no column is missing (Date is the merge key and is
\* never missing)
RowComplete(r) == ~r.DJI_Close.nan /\ ~r.CO2_Level.nan

\* df.dropna(subset=['DJI_Close']): a missing CO2_Level is kept
dropna_subset_dji(frame) ==
    LET Kept(r) == ~r.DJI_Close.nan
    IN  SelectSeq(frame, Kept)

\* df.dropna()
dropna(frame) == SelectSeq(frame, RowComplete)

\* a merged frame without missing values
CleanFrame == <<Row(1, F(3), F(1)), Row(2, F(1), F(2)), Row(3, F(2), F(3))>>

\* merged frames with missing values in one column or the other
GappyFrame ==
    <<Row(1, F(1), F(1)), Row(2, NaN, F(2)), Row(3, F(2), NaN), Row(4, F(3), F(2)),
      Row(5, F(1), F(3))>>

LeadingGapFrame == <<Row(1, NaN, NaN), Row(2, F(2), F(1)), Row(3, F(1), F(2)), Row(4, F(3), F(3))>>

\* what pd.merge may hand to the cleaning
RawFrames == {CleanFrame, GappyFrame, LeadingGapFrame}

\* frames a client may build an analyzer on: a constant CO2_Level, a
\* constant DJI_Close, points on a line, four rows, and none
ConstantCo2Frame == <<Row(1, F(1), F(2)), Row(2, F(2), F(2)), Row(3, F(3), F(2))>>

ConstantDjiFrame == <<Row(1, F(2), F(1)), Row(2, F(2), F(2)), Row(3, F(2), F(3))>>

LineFrame == <<Row(1, F(1), F(1)), Row(2, F(2), F(2)), Row(3, F(3), F(3))>>

LongFrame == <<Row(1, F(1), F(1)), Row(2, F(3), F(2)), Row(3, F(2), F(3)), Row(4, F(3), F(1))>>

\* a frame without rows
EmptyFrame == <<>>

ClientFrames ==
    {CleanFrame, ConstantCo2Frame, ConstantDjiFrame, LineFrame, LongFrame, EmptyFrame}

\* the values of one column of a frame without missing values
Col(rows, name) == [i \in 1..Len(rows) |-> rows[i][name].v]

RECURSIVE Sum(_)
Sum(xs) == IF xs = <<>> THEN 0 ELSE Head(xs) + Sum(Tail(xs))

Dot(xs, ys) == Sum([i \in 1..Len(xs) |-> xs[i] * ys[i]])

\* n times the sum of squared deviations of xs: zero iff xs is constant
SpreadN(xs) == Len(xs) * Dot(xs, xs) - Sum(xs) * Sum(xs)

\* the cross products without the means taken off
CoSpreadUncentred(xs, ys) == Len(xs) * Dot(xs, ys)

\* n times the sum of cross deviations
CoSpreadN(xs, ys) == Len(xs) * Dot(xs, ys) - Sum(xs) * Sum(ys)

Min(a, b) == IF a < b THEN a ELSE b

\* a dataset: its rows, and what the libraries compute from them
Frame(rows, d) ==
    [ rows |-> rows,
      shapiro_dji |-> d.shapiro_dji, shapiro_co2 |-> d.shapiro_co2,
      adf_dji |-> d.adf_dji, adf_co2 |-> d.adf_co2,
      bp_lm_p |-> d.bp_lm_p, white_lm_p |-> d.white_lm_p,
      bg_lm_p |-> d.bg_lm_p, dw |-> d.dw ]

----------------------------------------------------------------------------
(* StatisticalAnalyzer: each method is a function of the dataset *)

\* the keys of one series' record in compute_descriptive_stats
DescriptiveKeys == {"mean", "std", "var", "min", "max", "median", "q1", "q3"}

\* a statistic of a series: the fraction num / den, or NaN
Stat(num, den) == [nan |-> FALSE, num |-> num, den |-> den]

NaNStat == [nan |-> TRUE, num |-> 0, den |-> 0]

\* the values of a series in increasing order
RECURSIVE SortValues(_)
SortValues(xs) ==
    IF xs = <<>> THEN <<>>
    ELSE LET i == CHOOSE i \in 1..Len(xs) : \A k \in 1..Len(xs) : xs[i] <= xs[k]
             rest == [k \in 1..(Len(xs) - 1) |-> IF k < i THEN xs[k] ELSE xs[k + 1]]
         IN  <<xs[i]>> \o SortValues(rest)

\* Series.quantile(k / 4) with pandas' default linear interpolation: the
\* value at position (n - 1) k / 4 of the sorted series, interpolated
\* between its two neighbours; NaN for an empty series
Quantile(xs, k) ==
    LET n == Len(xs)
        sorted == SortValues(xs)
        h == (n - 1) * k
        lo == (h \div 4) + 1
        hi == IF lo < n THEN lo + 1 ELSE lo
    IN  IF n = 0 THEN NaNStat
        ELSE Stat(4 * sorted[lo] + (h % 4) * (sorted[hi] - sorted[lo]), 4)

\* one series' record without the quartiles
DescribeWithoutQuartiles(xs) ==
    LET n == Len(xs)
    IN  [ mean |-> IF n = 0 THEN NaNStat ELSE Stat(Sum(xs), n),
          std |-> IF n < 2 THEN NaNStat ELSE Stat(SpreadN(xs), n * (n - 1)),
          var |-> IF n < 2 THEN NaNStat ELSE Stat(SpreadN(xs), n * (n - 1)),
          min |-> IF n = 0 THEN NaNStat ELSE Stat(SortValues(xs)[1], 1),
          max |-> IF n = 0 THEN NaNStat ELSE Stat(SortValues(xs)[n], 1),
          median |-> Quantile(xs, 2) ]

\* one series' record: pandas' mean(), std(), var() (both with the N - 1
\* denominator; std is held by its square), min(), max(), median(),
\* quantile(0.25) and quantile(0.75).  On an empty series each of them is
\* NaN and none raises; std and var are NaN on a single value.
Describe(xs) ==
    LET n == Len(xs)
    IN  [ mean |-> IF n = 0 THEN NaNStat ELSE Stat(Sum(xs), n),
          std |-> IF n < 2 THEN NaNStat ELSE Stat(SpreadN(xs), n * (n - 1)),
          var |-> IF n < 2 THEN NaNStat ELSE Stat(SpreadN(xs), n * (n - 1)),
          min |-> IF n = 0 THEN NaNStat ELSE Stat(SortValues(xs)[1], 1),
          max |-> IF n = 0 THEN NaNStat ELSE Stat(SortValues(xs)[n], 1),
          median |-> Quantile(xs, 2),
          q1 |-> Quantile(xs, 1),
          q3 |-> Quantile(xs, 3) ]

compute_descriptive_stats(d) ==
    [ DJI |-> Describe(Col(d.rows, "DJI_Close")),
      CO2 |-> Describe(Col(d.rows, "CO2_Level")) ]

\* is_normal with >= for >
IsNormalInclusive(p) == ~Lt(p, F(Alpha)) /\ ~p.nan

\* 'is_normal': p > 0.05
IsNormal(p) == Gt(p, F(Alpha))

\* the generator of sample(n, random_state=None): numpy's global one
GlobalRandomState(seed, global) == global

\* the generator of sample(n, random_state=42): a fresh one seeded with 42,
\* whatever the state of numpy's global generator
RandomState(seed, global) == seed

\* n = min(sample_size, len(self.data))
SampleSize(sample_size, d) == Min(sample_size, Len(d.rows))

\* n draws with replacement: the same position every time
SampledWithReplacement(n, len, state) == [k \in 1..n |-> (state % len) + 1]

\* Series.sample(n, random_state=...): n of the len row positions, drawn
\* without replacement in an order the generator's state decides (here a
\* rotation of the positions by the state)
SampledPositions(n, len, state) == [k \in 1..n |-> ((state + k - 1) % len) + 1]

\* the positions test_normality samples, the same for both columns
NormalitySample(d, sample_size, global) ==
    SampledPositions(SampleSize(sample_size, d), Len(d.rows), RandomState(Seed, global))

\* shapiro(sample)'s p-value.  It depends on the sampled values only, not
\* on their order: on the whole series it is the dataset's, on a strict
\* sub-sample it is another value that the sampled values decide (here ten
\* times their sum, in thousandths).
ShapiroP(d, name, whole, positions) ==
    IF Len(positions) = Len(d.rows) THEN whole
    ELSE F(10 * Sum([k \in 1..Len(positions) |-> d.rows[positions[k]][name].v]))

test_normality(d, sample_size, global) ==
    LET positions == NormalitySample(d, sample_size, global)
        p_dji == ShapiroP(d, "DJI_Close", d.shapiro_dji, positions)
        p_co2 == ShapiroP(d, "CO2_Level", d.shapiro_co2, positions)
    IN  [ DJI |-> [p_value |-> p_dji, is_normal |-> IsNormal(p_dji)],
          CO2 |-> [p_value |-> p_co2, is_normal |-> IsNormal(p_co2)] ]

\* is_stationary with <= for <
IsStationaryInclusive(p) == ~Gt(p, F(Alpha)) /\ ~p.nan

\* 'is_stationary': adf[1] < 0.05
IsStationary(p) == Lt(p, F(Alpha))

test_stationarity(d) ==
    [ DJI |-> [p_value |-> d.adf_dji, is_stationary |-> IsStationary(d.adf_dji)],
      CO2 |-> [p_value |-> d.adf_co2, is_stationary |-> IsStationary(d.adf_co2)] ]

\* _prepare_regression_data: sm.add_constant(data['CO2_Level']) with its
\* default has_constant='skip' adds no 'const' column when CO2_Level is
\* itself a non-zero constant
DesignColumns(d) ==
    LET co2 == Col(d.rows, "CO2_Level")
    IN  IF co2 # <<>> /\ SpreadN(co2) = 0 /\ co2[1] # 0
        THEN <<"CO2_Level">> ELSE <<"const", "CO2_Level">>

\* _prepare_regression_data: self.y and self.X
prepare_regression_data(d) ==
    [ y |-> Col(d.rows, "DJI_Close"),
      X |-> [columns |-> DesignColumns(d), CO2_Level |-> Col(d.rows, "CO2_Level")] ]

\* the common denominator of the OLS residuals below
ResidualScale(d) ==
    LET co2 == Col(d.rows, "CO2_Level")
    IN  IF SpreadN(co2) = 0 THEN Len(co2) ELSE SpreadN(co2)

\* the residuals of a fit without intercept, y - b x, times sum(x^2)
ResidualsThroughOrigin(d) ==
    LET x == Col(d.rows, "CO2_Level")
        y == Col(d.rows, "DJI_Close")
    IN  [i \in 1..Len(x) |-> Dot(x, x) * y[i] - Dot(x, y) * x[i]]

\* the OLS residuals y - a - b x, times ResidualScale.  With a constant
\* predictor the least-squares (pinv) fit is the mean of y.
Residuals(d) ==
    LET x == Col(d.rows, "CO2_Level")
        y == Col(d.rows, "DJI_Close")
        n == Len(x)
    IN  IF SpreadN(x) = 0
        THEN [i \in 1..n |-> n * y[i] - Sum(y)]
        ELSE [i \in 1..n |->
                SpreadN(x) * y[i] - (Sum(y) * Dot(x, x) - Sum(x) * Dot(x, y))
                    - CoSpreadN(x, y) * x[i]]

\* RegressionResults.rsquared: 1 - ssr / centered_tss (statsmodels takes a
\* constant CO2_Level column for the model's constant); 0/0, NaN, when
\* DJI_Close is constant
RSquared(d) ==
    LET y == Col(d.rows, "DJI_Close")
        e == Residuals(d)
        scale == ResidualScale(d)
    IN  IF SpreadN(y) = 0 THEN NaNStat
        ELSE Stat(scale * scale * SpreadN(y) - Len(y) * Dot(e, e),
                  scale * scale * SpreadN(y))

\* sm.OLS(self.y, self.X).fit(): y is DJI_Close, X is the design matrix,
\* one parameter per column of X.  The fit never raises on a singular design.
run_ols_regression(d) ==
    [error |-> "none", estimator |-> "OLS", endog |-> "DJI_Close",
     exog |-> DesignColumns(d), resid |-> Residuals(d), weights |-> <<>>,
     rsquared |-> RSquared(d)]

\* per test 'has_heteroscedasticity': lm_p_value < 0.05
RejectsHomoscedasticity(p) == Lt(p, F(Alpha))

\* the aggregate with and for or
BothHeteroscedasticity(bp_p, white_p) == Lt(bp_p, F(Alpha)) /\ Lt(white_p, F(Alpha))

\* the aggregate 'has_heteroscedasticity': bp_test[1] < 0.05 or white_test[1] < 0.05
AnyHeteroscedasticity(bp_p, white_p) == Lt(bp_p, F(Alpha)) \/ Lt(white_p, F(Alpha))

test_heteroscedasticity(d) ==
    [ breusch_pagan |-> [lm_p_value |-> d.bp_lm_p,
                         has_heteroscedasticity |-> RejectsHomoscedasticity(d.bp_lm_p)],
      white |-> [lm_p_value |-> d.white_lm_p,
                 has_heteroscedasticity |-> RejectsHomoscedasticity(d.white_lm_p)],
      has_heteroscedasticity |-> AnyHeteroscedasticity(d.bp_lm_p, d.white_lm_p) ]

\* the Durbin-Watson flag with <= and >= for < and >
DurbinWatsonFlagInclusive(dw) == ~dw.nan /\ (dw.v <= DwLow \/ dw.v >= DwHigh)

\* 'durbin_watson' flag: dw_stat < 1.5 or dw_stat > 2.5
DurbinWatsonFlag(dw) == Lt(dw, F(DwLow)) \/ Gt(dw, F(DwHigh))

\* 'breusch_godfrey' flag: bg_test[1] < 0.05
BreuschGodfreyFlag(p) == Lt(p, F(Alpha))

\* the aggregate without the Breusch-Godfrey term
OnlyDurbinWatson(dw, bg_p) == Lt(dw, F(DwLow)) \/ Gt(dw, F(DwHigh))

\* the aggregate 'has_autocorrelation'
AnyAutocorrelation(dw, bg_p) ==
    Lt(dw, F(DwLow)) \/ Gt(dw, F(DwHigh)) \/ Lt(bg_p, F(Alpha))

test_autocorrelation(d) ==
    [ durbin_watson |-> [statistic |-> d.dw,
                         has_autocorrelation |-> DurbinWatsonFlag(d.dw)],
      breusch_godfrey |-> [lm_p_value |-> d.bg_lm_p,
                           has_autocorrelation |-> BreuschGodfreyFlag(d.bg_lm_p)],
      has_autocorrelation |-> AnyAutocorrelation(d.dw, d.bg_lm_p) ]

\* 1 / resid ** 2 on a pandas Series: a zero residual gives inf, no error
InverseSquare(r, scale) ==
    IF r = 0 THEN [inf |-> TRUE, num |-> 1, den |-> 0]
    ELSE [inf |-> FALSE, num |-> scale * scale, den |-> r * r]

\* weights = 1 / (ols_model.resid ** 2)
WlsWeights(d) ==
    LET r == Residuals(d)
    IN  [i \in 1..Len(r) |-> InverseSquare(r[i], ResidualScale(d))]

\* sm.WLS(self.y, self.X, weights = 1 / resid ** 2).fit()
run_wls_regression(d) ==
    [error |-> "none", estimator |-> "WLS", endog |-> "DJI_Close",
     exog |-> DesignColumns(d), weights |-> WlsWeights(d)]

----------------------------------------------------------------------------
(* EconometricAnalysis *)

\* d[k] = v on a dict
Put(d, k, v) == [x \in DOMAIN d \cup {k} |-> IF x = k THEN v ELSE d[x]]

EmptyDict == [x \in {} |-> {}]

\* the branch taken on the Breusch-Pagan flag alone
WlsWantedBreuschPagan(st) == st["heteroscedasticity"].breusch_pagan.has_heteroscedasticity

\* if self.stats['heteroscedasticity']['has_heteroscedasticity']:
WlsWanted(st) == st["heteroscedasticity"].has_heteroscedasticity

\* the WLS fit stored over the OLS one
StoreWlsAsOls(m, fit) == Put(m, "ols", fit)

\* self.models['wls'] = analyzer.run_wls_regression()
StoreWls(m, fit) == Put(m, "wls", fit)

\* Series.corr: the Pearson coefficient cov / sqrt(var_dji * var_co2), held
\* by its three terms (each times n); 0/0, that is NaN, when a series is
\* constant.  No error is raised.
compute_correlation(d) ==
    LET dji == Col(d.rows, "DJI_Close")
        co2 == Col(d.rows, "CO2_Level")
    IN  [ error |-> "none",
          nan |-> SpreadN(dji) = 0 \/ SpreadN(co2) = 0,
          cov |-> CoSpreadN(dji, co2),
          var_dji |-> SpreadN(dji),
          var_co2 |-> SpreadN(co2) ]

\* the positions at which run_analysis is executing a step
Running ==
    {"start", "descriptive", "normality", "stationarity", "correlation", "ols",
     "heteroscedasticity", "autocorrelation", "wls", "visualizations", "report",
     "success"}

\* module import (config.py) and EconometricAnalysis.__init__
Init ==
    /\ config \in Configs
    /\ pc = "start"
    /\ data = NoData
    /\ stats = EmptyDict
    /\ models = EmptyDict
    /\ ols_fits = 0
    /\ wls_fits = 0
    /\ bg_nlags = {}
    /\ log = <<>>
    /\ exit_code = {}
    /\ raw = <<>>
    /\ used_fit = EmptyDict
    /\ np_random = 0
    /\ calls = <<>>
    /\ analyzer = NoData
    /\ report = {}
    /\ df_merged = {}
    /\ collector_pc = "idle"
    /\ frames = EmptyDict
    /\ collector_log = <<>>

\* _collect_data: collector.collect_all_data() returns the merged dataset
CollectData ==
    /\ pc = "start"
    /\ \E d \in Datasets, merged \in RawFrames :
            /\ raw' = merged
            /\ data' = Frame(dropna(merged), d)
    /\ log' = log \o <<"collected">>
    /\ pc' = "descriptive"
    /\ UNCHANGED <<config, stats, models, ols_fits, wls_fits, bg_nlags, exit_code, used_fit>>
    /\ UNCHANGED report
    /\ UNCHANGED client_vars

\* self.stats['descriptive'] = analyzer.compute_descriptive_stats()
Descriptive ==
    /\ pc = "descriptive"
    /\ stats' = Put(stats, "descriptive", compute_descriptive_stats(data))
    /\ log' = log \o <<"descriptive">>
    /\ pc' = "normality"
    /\ UNCHANGED <<config, data, models, ols_fits, wls_fits, bg_nlags, exit_code, raw, used_fit>>
    /\ UNCHANGED report
    /\ UNCHANGED client_vars

\* self.stats['normality'] = analyzer.test_normality()
Normality ==
    /\ pc = "normality"
    /\ stats' = Put(stats, "normality", test_normality(data, DefaultSampleSize, np_random))
    /\ log' = log \o <<"normality">>
    /\ pc' = "stationarity"
    /\ UNCHANGED <<config, data, models, ols_fits, wls_fits, bg_nlags, exit_code, raw, used_fit>>
    /\ UNCHANGED report
    /\ UNCHANGED client_vars

\* self.stats['stationarity'] = analyzer.test_stationarity()
Stationarity ==
    /\ pc = "stationarity"
    /\ stats' = Put(stats, "stationarity", test_stationarity(data))
    /\ log' = log \o <<"stationarity">>
    /\ pc' = "correlation"
    /\ UNCHANGED <<config, data, models, ols_fits, wls_fits, bg_nlags, exit_code, raw, used_fit>>
    /\ UNCHANGED report
    /\ UNCHANGED client_vars

\* the charts drawn right after the correlation
CorrelationThenCharts ==
    /\ pc = "correlation"
    /\ stats' = Put(stats, "correlation", compute_correlation(data))
    /\ log' = log \o <<"correlation">>
    /\ pc' = "visualizations"
    /\ UNCHANGED <<config, data, models, ols_fits, wls_fits, bg_nlags, exit_code, raw, used_fit>>
    /\ UNCHANGED report
    /\ UNCHANGED client_vars

\* self.stats['correlation'] = analyzer.compute_correlation()
Correlation ==
    /\ pc = "correlation"
    /\ stats' = Put(stats, "correlation", compute_correlation(data))
    /\ log' = log \o <<"correlation">>
    /\ pc' = "ols"
    /\ UNCHANGED <<config, data, models, ols_fits, wls_fits, bg_nlags, exit_code, raw, used_fit>>
    /\ UNCHANGED report
    /\ UNCHANGED client_vars

\* self.models['ols'] = analyzer.run_ols_regression()
Ols ==
    /\ pc = "ols"
    /\ models' = Put(models, "ols", run_ols_regression(data))
    /\ ols_fits' = ols_fits + 1
    /\ log' = log \o <<"ols">>
    /\ pc' = "heteroscedasticity"
    /\ UNCHANGED <<config, data, stats, wls_fits, bg_nlags, exit_code, raw, used_fit>>
    /\ UNCHANGED report
    /\ UNCHANGED client_vars

\* the diagnostics working on the stored models['ols'] instead of a fit of
\* their own
HeteroscedasticityOnStoredFit ==
    /\ pc = "heteroscedasticity"
    /\ used_fit' = Put(used_fit, "heteroscedasticity", models["ols"])
    /\ stats' = Put(stats, "heteroscedasticity", test_heteroscedasticity(data))
    /\ log' = log \o <<"heteroscedasticity">>
    /\ pc' = "autocorrelation"
    /\ UNCHANGED <<config, data, models, ols_fits, wls_fits, bg_nlags, exit_code, raw>>
    /\ UNCHANGED report
    /\ UNCHANGED client_vars

\* self.stats['heteroscedasticity'] = analyzer.test_heteroscedasticity(),
\* which fits the OLS model again for its residuals
Heteroscedasticity ==
    /\ pc = "heteroscedasticity"
    /\ ols_fits' = ols_fits + 1
    /\ used_fit' = Put(used_fit, "heteroscedasticity", run_ols_regression(data))
    /\ stats' = Put(stats, "heteroscedasticity", test_heteroscedasticity(data))
    /\ log' = log \o <<"heteroscedasticity">>
    /\ pc' = "autocorrelation"
    /\ UNCHANGED <<config, data, models, wls_fits, bg_nlags, exit_code, raw>>
    /\ UNCHANGED report
    /\ UNCHANGED client_vars

\* self.stats['autocorrelation'] = analyzer.test_autocorrelation(), which
\* fits the OLS model again and calls acorr_breusch_godfrey(model, nlags=10)
Autocorrelation ==
    /\ pc = "autocorrelation"
    /\ ols_fits' = ols_fits + 1
    /\ bg_nlags' = {BgLags}
    /\ used_fit' = Put(used_fit, "autocorrelation", run_ols_regression(data))
    /\ stats' = Put(stats, "autocorrelation", test_autocorrelation(data))
    /\ log' = log \o <<"autocorrelation">>
    /\ pc' = "wls"
    /\ UNCHANGED <<config, data, models, wls_fits, exit_code, raw>>
    /\ UNCHANGED report
    /\ UNCHANGED client_vars

\* the branch taken: run_wls_regression fits the OLS model for the weights,
\* then sm.WLS, and the result is stored under 'wls'
Wls ==
    /\ pc = "wls"
    /\ WlsWanted(stats)
    /\ ols_fits' = ols_fits + 1
    /\ wls_fits' = wls_fits + 1
    /\ used_fit' = Put(used_fit, "wls", run_ols_regression(data))
    /\ models' = StoreWls(models, run_wls_regression(data))
    /\ log' = log \o <<"wls">>
    /\ pc' = "visualizations"
    /\ UNCHANGED <<config, data, stats, bg_nlags, exit_code, raw>>
    /\ UNCHANGED report
    /\ UNCHANGED client_vars

\* the branch not taken: _perform_statistical_analysis returns
SkipWls ==
    /\ pc = "wls"
    /\ ~WlsWanted(stats)
    /\ pc' = "visualizations"
    /\ UNCHANGED <<config, data, stats, models, ols_fits, wls_fits, bg_nlags, log, exit_code, raw, used_fit>>
    /\ UNCHANGED report
    /\ UNCHANGED client_vars

\* _generate_visualizations
Visualizations ==
    /\ pc = "visualizations"
    /\ log' = log \o <<"visualizations">>
    /\ pc' = "report"
    /\ UNCHANGED <<config, data, stats, models, ols_fits, wls_fits, bg_nlags, exit_code, raw, used_fit>>
    /\ UNCHANGED report
    /\ UNCHANGED client_vars

\* _add_heteroscedasticity_tests, "3. Conclusion generale": which of the two
\* texts is printed
HeteroscedasticityConclusion(st) ==
    IF st["heteroscedasticity"].has_heteroscedasticity
    THEN "presence: WLS sera appliquee"
    ELSE "pas d'heteroscedasticite"

\* the regression chapter without its WLS section
RegressionSectionsOlsOnly(m) == <<"ols">>

\* _add_regression_results: the OLS section, and the WLS section
\* if 'wls' in self.models
RegressionSections(m) ==
    IF "wls" \in DOMAIN m THEN <<"ols", "wls">> ELSE <<"ols">>

\* generate_full_report: the parts of the rendered report that depend on the
\* heteroscedasticity branch
generate_full_report(st, m) ==
    [ heteroscedasticity_conclusion |-> HeteroscedasticityConclusion(st),
      regression_sections |-> RegressionSections(m) ]

\* _generate_report: ReportGenerator(data, stats, models).generate_full_report()
Report ==
    /\ pc = "report"
    /\ report' = {generate_full_report(stats, models)}
    /\ log' = log \o <<"report">>
    /\ pc' = "success"
    /\ UNCHANGED <<config, data, stats, models, ols_fits, wls_fits, bg_nlags, exit_code, raw, used_fit>>
    /\ UNCHANGED client_vars

\* the success message of run_analysis; main() prints and returns
Success ==
    /\ pc = "success"
    /\ log' = log \o <<"success">>
    /\ pc' = "exited"
    /\ exit_code' = {0}
    /\ UNCHANGED <<config, data, stats, models, ols_fits, wls_fits, bg_nlags, raw, used_fit>>
    /\ UNCHANGED report
    /\ UNCHANGED client_vars

\* the step that follows each statistical step
StepAfter(p) ==
    CASE p = "descriptive" -> "normality"
      [] p = "normality" -> "stationarity"
      [] p = "stationarity" -> "correlation"
      [] p = "correlation" -> "ols"
      [] p = "ols" -> "heteroscedasticity"
      [] OTHER -> "visualizations"

\* a step's Exception logged and swallowed: the run goes on without the
\* step's result
RaiseExceptionSwallowed ==
    /\ pc \in {"descriptive", "normality", "stationarity", "correlation", "ols"}
    /\ log' = log \o <<"error">>
    /\ pc' = StepAfter(pc)
    /\ UNCHANGED <<config, data, stats, models, ols_fits, wls_fits, bg_nlags, exit_code,
                   raw, used_fit>>
    /\ UNCHANGED report
    /\ UNCHANGED client_vars

\* a step's Exception logged by run_analysis and not raised again: main()
\* goes on as after a success
RaiseExceptionLoggedOnly ==
    /\ pc \in Running \ {"success"}
    /\ pc = "wls" => WlsWanted(stats)
    /\ log' = log \o <<"error">>
    /\ pc' = "exited"
    /\ exit_code' = {0}
    /\ UNCHANGED <<config, data, stats, models, ols_fits, wls_fits, bg_nlags, raw, used_fit>>
    /\ UNCHANGED report
    /\ UNCHANGED client_vars

\* a step raises an Exception: run_analysis logs it and re-raises, main()
\* logs it and exits with status 1
RaiseException ==
    /\ pc \in Running \ {"success"}
    /\ pc = "wls" => WlsWanted(stats)
    /\ log' = log \o <<"error", "fatal">>
    /\ pc' = "exited"
    /\ exit_code' = {1}
    /\ UNCHANGED <<config, data, stats, models, ols_fits, wls_fits, bg_nlags, raw, used_fit>>
    /\ UNCHANGED report
    /\ UNCHANGED client_vars

\* the user interrupts: KeyboardInterrupt is no Exception, so run_analysis
\* lets it through; main() logs a warning and exits with status 1
KeyboardInterrupt ==
    /\ pc \in Running
    /\ log' = log \o <<"interrupted">>
    /\ pc' = "exited"
    /\ exit_code' = {1}
    /\ UNCHANGED <<config, data, stats, models, ols_fits, wls_fits, bg_nlags, raw, used_fit>>
    /\ UNCHANGED report
    /\ UNCHANGED client_vars

Next ==
    \/ CollectData
    \/ Descriptive
    \/ Normality
    \/ Stationarity
    \/ Correlation
    \/ Ols
    \/ Heteroscedasticity
    \/ Autocorrelation
    \/ Wls
    \/ SkipWls
    \/ Visualizations
    \/ Report
    \/ Success
    \/ RaiseException
    \/ KeyboardInterrupt

Spec == Init /\ [][Next]_vars

----------------------------------------------------------------------------
(* A client of StatisticalAnalyzer, as tests/test_analysis.py: it builds an  *)
(* analyzer on a frame and calls its methods in any order.                  *)

\* how many calls a client makes
MaxCalls == 3

\* how many states numpy's global generator has
MaxRandom == 1

\* the sample_size arguments a client passes to test_normality
SampleSizes == {3, DefaultSampleSize}

\* self.analyzer = StatisticalAnalyzer(self.test_data): __init__ stores the
\* frame as it is
ClientInit ==
    /\ config \in {[significance_level |-> Alpha, autocorrelation_lags |-> BgLags]}
    /\ pc = "client"
    /\ data \in {Frame(rows, Dataset(BaseSeries, BaseResiduals)) : rows \in ClientFrames}
    /\ stats = EmptyDict
    /\ models = EmptyDict
    /\ ols_fits = 0
    /\ wls_fits = 0
    /\ bg_nlags = {}
    /\ log = <<>>
    /\ exit_code = {}
    /\ raw = <<>>
    /\ used_fit = EmptyDict
    /\ np_random = 0
    /\ calls = <<>>
    /\ analyzer = prepare_regression_data(data)
    /\ report = {}
    /\ df_merged = {}
    /\ collector_pc = "idle"
    /\ frames = EmptyDict
    /\ collector_log = <<>>

pipeline_vars ==
    <<config, pc, data, stats, models, ols_fits, wls_fits, bg_nlags, log, exit_code,
      raw, used_fit, report>>

\* On a frame without rows the library calls of every method but
\* compute_descriptive_stats and compute_correlation raise (shapiro and
\* adfuller need observations, sm.OLS a non-empty design): no result.
Raises(method, d) ==
    /\ d.rows = <<>>
    /\ method \notin {"compute_descriptive_stats", "compute_correlation"}

\* a call that keeps its sample as the analyzer's data (sample in place)
CalledSamplingInPlace(method, argument, sampled, result) ==
    /\ pc = "client"
    /\ Len(calls) < MaxCalls
    /\ ~Raises(method, data)
    /\ calls' = Append(calls, [method |-> method, argument |-> argument,
                               sampled |-> sampled, result |-> result])
    /\ data' = IF sampled = <<>> THEN data
               ELSE [data EXCEPT !.rows = [k \in 1..Len(sampled) |-> data.rows[sampled[k]]]]
    /\ UNCHANGED <<config, pc, stats, models, ols_fits, wls_fits, bg_nlags, log, exit_code,
                   raw, used_fit, report>>
    /\ UNCHANGED <<np_random, analyzer, collector_vars>>

\* one call of a method and what it returned
Called(method, argument, sampled, result) ==
    /\ pc = "client"
    /\ Len(calls) < MaxCalls
    /\ ~Raises(method, data)
    /\ calls' = Append(calls, [method |-> method, argument |-> argument,
                               sampled |-> sampled, result |-> result])
    /\ UNCHANGED pipeline_vars
    /\ UNCHANGED <<np_random, analyzer, collector_vars>>

CallDescriptive ==
    Called("compute_descriptive_stats", {}, <<>>, compute_descriptive_stats(data))

CallNormality ==
    \E sample_size \in SampleSizes :
        Called("test_normality", {sample_size},
               NormalitySample(data, sample_size, np_random),
               test_normality(data, sample_size, np_random))

CallStationarity ==
    Called("test_stationarity", {}, <<>>, test_stationarity(data))

CallCorrelation ==
    Called("compute_correlation", {}, <<>>, compute_correlation(data))

CallOls ==
    Called("run_ols_regression", {}, <<>>, run_ols_regression(data))

CallHeteroscedasticity ==
    Called("test_heteroscedasticity", {}, <<>>, test_heteroscedasticity(data))

CallAutocorrelation ==
    Called("test_autocorrelation", {}, <<>>, test_autocorrelation(data))

CallWls ==
    Called("run_wls_regression", {}, <<>>, run_wls_regression(data))

\* get_analysis_summary: the six dictionaries, test_normality with its
\* default sample_size
get_analysis_summary(d, global) ==
    [ descriptive |-> compute_descriptive_stats(d),
      normality |-> test_normality(d, DefaultSampleSize, global),
      stationarity |-> test_stationarity(d),
      correlation |-> compute_correlation(d),
      heteroscedasticity |-> test_heteroscedasticity(d),
      autocorrelation |-> test_autocorrelation(d) ]

CallSummary ==
    Called("get_analysis_summary", {}, <<>>, get_analysis_summary(data, np_random))

\* other code draws from numpy's global generator (np.random.randn)
DrawGlobalRandom ==
    /\ pc = "client"
    /\ np_random' = (np_random + 1) % (MaxRandom + 1)
    /\ UNCHANGED pipeline_vars
    /\ UNCHANGED <<calls, analyzer, collector_vars>>

ClientNext ==
    \/ CallDescriptive
    \/ CallNormality
    \/ CallStationarity
    \/ CallCorrelation
    \/ CallOls
    \/ CallHeteroscedasticity
    \/ CallAutocorrelation
    \/ CallWls
    \/ CallSummary
    \/ DrawGlobalRandom

ClientSpec == ClientInit /\ [][ClientNext]_vars

----------------------------------------------------------------------------
(* A client of DataCollector: it calls collect_all_data and                 *)
(* get_data_summary, one call at a time, in any order.                      *)

\* how many calls a client of the collector makes
MaxCollectorCalls == 3

\* what yf.download may return: rows of Date and DJI_Close
DowJonesFrames ==
    { <<[Date |-> 1, DJI_Close |-> F(3)], [Date |-> 2, DJI_Close |-> F(1)],
        [Date |-> 3, DJI_Close |-> F(2)]>>,
      <<[Date |-> 1, DJI_Close |-> F(3)], [Date |-> 2, DJI_Close |-> NaN],
        [Date |-> 4, DJI_Close |-> F(2)]>> }

\* what the CO2 API may return: rows of Date and CO2_Level
Co2Frames ==
    { <<[Date |-> 1, CO2_Level |-> F(1)], [Date |-> 2, CO2_Level |-> F(2)],
        [Date |-> 3, CO2_Level |-> F(3)]>>,
      <<[Date |-> 2, CO2_Level |-> F(2)], [Date |-> 3, CO2_Level |-> F(3)]>> }

\* pd.merge(df_dj, df_co2, on='Date', how='inner'): the rows of df_dj whose
\* Date df_co2 has too, with the CO2_Level of that Date
inner_merge(df_dj, df_co2) ==
    LET Matched(r) == \E j \in 1..Len(df_co2) : df_co2[j].Date = r.Date
        kept == SelectSeq(df_dj, Matched)
        Partner(r) == df_co2[CHOOSE j \in 1..Len(df_co2) : df_co2[j].Date = r.Date]
    IN  [i \in 1..Len(kept) |->
            Row(kept[i].Date, kept[i].DJI_Close, Partner(kept[i]).CO2_Level)]

\* merge_datasets: the inner merge on Date, then dropna
merge_datasets(df_dj, df_co2) == dropna(inner_merge(df_dj, df_co2))

\* get_data_summary: ValueError while df_merged is None, the summary after
get_data_summary(merged) ==
    IF merged = {} THEN [error |-> "ValueError", n_observations |-> {}]
    ELSE [error |-> "none", n_observations |-> {Len(df) : df \in merged}]

\* collector = DataCollector(start_date): df_merged is None
CollectorInit ==
    /\ config \in {[significance_level |-> Alpha, autocorrelation_lags |-> BgLags]}
    /\ pc = "collector"
    /\ data = NoData
    /\ stats = EmptyDict
    /\ models = EmptyDict
    /\ ols_fits = 0
    /\ wls_fits = 0
    /\ bg_nlags = {}
    /\ log = <<>>
    /\ exit_code = {}
    /\ raw = <<>>
    /\ used_fit = EmptyDict
    /\ np_random = 0
    /\ calls = <<>>
    /\ analyzer = NoData
    /\ report = {}
    /\ df_merged = {}
    /\ collector_pc = "idle"
    /\ frames = EmptyDict
    /\ collector_log = <<>>

\* what the collector leaves alone
analysis_vars == <<pipeline_vars, np_random, calls, analyzer>>

\* the client calls collect_all_data()
CallCollectAllData ==
    /\ pc = "collector"
    /\ collector_pc = "idle"
    /\ Len(collector_log) < MaxCollectorCalls
    /\ collector_pc' = "dow_jones"
    /\ UNCHANGED <<df_merged, frames, collector_log>>
    /\ UNCHANGED analysis_vars

\* df_dj = self.collect_dow_jones_data()
CollectDowJones ==
    /\ pc = "collector"
    /\ collector_pc = "dow_jones"
    /\ \E df_dj \in DowJonesFrames : frames' = Put(frames, "df_dj", df_dj)
    /\ collector_pc' = "co2"
    /\ UNCHANGED <<df_merged, collector_log>>
    /\ UNCHANGED analysis_vars

\* df_co2 = self.collect_co2_data()
CollectCo2 ==
    /\ pc = "collector"
    /\ collector_pc = "co2"
    /\ \E df_co2 \in Co2Frames : frames' = Put(frames, "df_co2", df_co2)
    /\ collector_pc' = "merge"
    /\ UNCHANGED <<df_merged, collector_log>>
    /\ UNCHANGED analysis_vars

\* the merge that stores its result in self.df_merged at once
MergeAssigning ==
    /\ pc = "collector"
    /\ collector_pc = "merge"
    /\ frames' = Put(frames, "df_merged", merge_datasets(frames["df_dj"], frames["df_co2"]))
    /\ df_merged' = {merge_datasets(frames["df_dj"], frames["df_co2"])}
    /\ collector_pc' = "save"
    /\ UNCHANGED collector_log
    /\ UNCHANGED analysis_vars

\* df_merged = self.merge_datasets(df_dj, df_co2): a local variable
Merge ==
    /\ pc = "collector"
    /\ collector_pc = "merge"
    /\ frames' = Put(frames, "df_merged", merge_datasets(frames["df_dj"], frames["df_co2"]))
    /\ collector_pc' = "save"
    /\ UNCHANGED <<df_merged, collector_log>>
    /\ UNCHANGED analysis_vars

\* self.save_data(df_merged): to_csv succeeded
SaveData ==
    /\ pc = "collector"
    /\ collector_pc = "save"
    /\ collector_pc' = "assign"
    /\ UNCHANGED <<df_merged, frames, collector_log>>
    /\ UNCHANGED analysis_vars

\* self.df_merged = df_merged; return df_merged
AssignMerged ==
    /\ pc = "collector"
    /\ collector_pc = "assign"
    /\ df_merged' = {frames["df_merged"]}
    /\ frames' = EmptyDict
    /\ collector_log' = Append(collector_log, [call |-> "collect_all_data", error |-> "none"])
    /\ collector_pc' = "idle"
    /\ UNCHANGED analysis_vars

\* the download of either series, the merge or the save raises: the
\* exception leaves collect_all_data
CollectRaises ==
    /\ pc = "collector"
    /\ collector_pc \in {"dow_jones", "co2", "merge", "save"}
    /\ frames' = EmptyDict
    /\ collector_log' = Append(collector_log, [call |-> "collect_all_data", error |-> collector_pc])
    /\ collector_pc' = "idle"
    /\ UNCHANGED df_merged
    /\ UNCHANGED analysis_vars

\* the client calls get_data_summary()
CallGetDataSummary ==
    /\ pc = "collector"
    /\ collector_pc = "idle"
    /\ Len(collector_log) < MaxCollectorCalls
    /\ collector_log' = Append(collector_log,
                               [call |-> "get_data_summary",
                                error |-> get_data_summary(df_merged).error])
    /\ UNCHANGED <<df_merged, collector_pc, frames>>
    /\ UNCHANGED analysis_vars

CollectorNext ==
    \/ CallCollectAllData
    \/ CollectDowJones
    \/ CollectCo2
    \/ Merge
    \/ SaveData
    \/ AssignMerged
    \/ CollectRaises
    \/ CallGetDataSummary

CollectorSpec == CollectorInit /\ [][CollectorNext]_vars

----------------------------------------------------------------------------
(* Properties *)

\* _perform_statistical_analysis has returned
StatisticsDone == pc \in {"visualizations", "report", "success"} \/ exit_code = {0}

\* C1: in every run whose statistical analysis completes, a WLS model has
\* been estimated and is stored under models['wls'] if and only if the
\* aggregate has_heteroscedasticity flag of the heteroscedasticity result
\* is true.
C1_WlsIffHeteroscedastic ==
    StatisticsDone =>
        LET flag == stats["heteroscedasticity"].has_heteroscedasticity
        IN  /\ ("wls" \in DOMAIN models) <=> flag
            /\ wls_fits = (IF flag THEN 1 ELSE 0)
            /\ flag => models["wls"].estimator = "WLS"

C1_Witness ==
    /\ pc = "visualizations"
    /\ stats["heteroscedasticity"].has_heteroscedasticity
    /\ ~stats["heteroscedasticity"].breusch_pagan.has_heteroscedasticity
    /\ "wls" \in DOMAIN models

\* C2: WLS is additive.  In every completed run models['ols'] holds the OLS
\* fit, and no step, the WLS step included, removes or changes models['ols']
\* once it is stored.
C2_WlsAdditive ==
    /\ [](StatisticsDone => "ols" \in DOMAIN models /\ models["ols"].estimator = "OLS")
    /\ [][ "ols" \in DOMAIN models =>
              "ols" \in DOMAIN models' /\ models'["ols"] = models["ols"] ]_vars

C2_Witness ==
    /\ pc = "visualizations"
    /\ wls_fits = 1
    /\ "wls" \in DOMAIN models
    /\ models["ols"] = run_ols_regression(data)
    /\ models["wls"] # models["ols"]

\* C3: the aggregate has_heteroscedasticity flag is the logical OR of the
\* Breusch-Pagan flag and the White flag, whatever the two LM p-values.
C3_AggregateIsOr ==
    "heteroscedasticity" \in DOMAIN stats =>
        LET h == stats["heteroscedasticity"]
        IN  h.has_heteroscedasticity =
                (h.breusch_pagan.has_heteroscedasticity \/ h.white.has_heteroscedasticity)

C3_Witness ==
    /\ "heteroscedasticity" \in DOMAIN stats
    /\ stats["heteroscedasticity"].has_heteroscedasticity
    /\ stats["heteroscedasticity"].white.has_heteroscedasticity
    /\ ~stats["heteroscedasticity"].breusch_pagan.has_heteroscedasticity

\* C4: each of the Breusch-Pagan and White flags is true if and only if
\* that test's LM p-value is strictly below the configured
\* significance_level, so that another configured level moves the threshold.
C4_FlagAtConfiguredLevel ==
    "heteroscedasticity" \in DOMAIN stats =>
        LET h == stats["heteroscedasticity"]
            level == F(config.significance_level)
        IN  /\ h.breusch_pagan.has_heteroscedasticity <=> Lt(h.breusch_pagan.lm_p_value, level)
            /\ h.white.has_heteroscedasticity <=> Lt(h.white.lm_p_value, level)

\* C5: the Durbin-Watson flag is true if and only if the statistic is
\* strictly below 1.5 or strictly above 2.5; on [1.5, 2.5], both ends
\* included, it is false.
C5_DurbinWatsonThresholds ==
    "autocorrelation" \in DOMAIN stats =>
        LET dw == stats["autocorrelation"].durbin_watson.statistic
            flag == stats["autocorrelation"].durbin_watson.has_autocorrelation
        IN  /\ flag <=> (~dw.nan /\ (dw.v < DwLow \/ dw.v > DwHigh))
            /\ (~dw.nan /\ dw.v \in DwLow..DwHigh) => ~flag

C5_Witness ==
    /\ "autocorrelation" \in DOMAIN stats
    /\ stats["autocorrelation"].durbin_watson.statistic = F(DwHigh)
    /\ ~stats["autocorrelation"].durbin_watson.has_autocorrelation

\* C6: the aggregate has_autocorrelation flag is the Durbin-Watson flag OR
\* the Breusch-Godfrey flag, for every statistic and p-value.
C6_AggregateIsOr ==
    "autocorrelation" \in DOMAIN stats =>
        LET a == stats["autocorrelation"]
        IN  a.has_autocorrelation =
                (a.durbin_watson.has_autocorrelation \/ a.breusch_godfrey.has_autocorrelation)

C6_Witness ==
    /\ "autocorrelation" \in DOMAIN stats
    /\ stats["autocorrelation"].has_autocorrelation
    /\ stats["autocorrelation"].breusch_godfrey.has_autocorrelation
    /\ ~stats["autocorrelation"].durbin_watson.has_autocorrelation

\* C7: the Breusch-Godfrey flag is true if and only if the LM p-value is
\* strictly below the configured significance_level.
C7_FlagAtConfiguredLevel ==
    "autocorrelation" \in DOMAIN stats =>
        LET bg == stats["autocorrelation"].breusch_godfrey
        IN  bg.has_autocorrelation <=> Lt(bg.lm_p_value, F(config.significance_level))

\* C8: the Breusch-Godfrey test is run with the configured number of lags.
C8_ConfiguredLags ==
    bg_nlags # {} => bg_nlags = {config.autocorrelation_lags}

C10_StationaryBelowLevel ==
    "stationarity" \in DOMAIN stats =>
        \A series \in {"DJI", "CO2"} :
            LET r == stats["stationarity"][series]
            IN  /\ r.is_stationary <=> (~r.p_value.nan /\ r.p_value.v < Alpha)
                /\ r.p_value = F(Alpha) => ~r.is_stationary

C10_Witness ==
    /\ "stationarity" \in DOMAIN stats
    /\ stats["stationarity"]["DJI"].p_value = F(Alpha)
    /\ ~stats["stationarity"]["DJI"].is_stationary
    /\ stats["stationarity"]["CO2"].is_stationary

\* C11: test_normality samples with a fixed seed whenever the series is
\* longer than the cap, so calling it again with the same argument on the
\* same data gives the same sample and the same result, whatever other
\* methods were called or random numbers drawn in between.
C11_NormalityDeterministic ==
    \A i, j \in 1..Len(calls) :
        /\ calls[i].method = "test_normality"
        /\ calls[j].method = "test_normality"
        /\ calls[i].argument = calls[j].argument
        => /\ calls[i].sampled = calls[j].sampled
           /\ calls[i].result = calls[j].result

\* two calls that subsample (4 rows, cap 3), another method between them
\* and the global generator having moved
C11_Witness ==
    /\ Len(calls) = 3
    /\ Len(data.rows) > 3
    /\ calls[1].method = "test_normality" /\ calls[1].argument = {3}
    /\ calls[2].method = "run_wls_regression"
    /\ calls[3].method = "test_normality" /\ calls[3].argument = {3}
    /\ Len(calls[3].sampled) = 3
    /\ np_random # 0

\* the least number of observations the specification asks for
MinObservations == 20

Collected == raw # <<>>

\* C12: a dataset with fewer than the minimum number of observations is
\* rejected before any statistical step computes a result.
C12_ShortInputRejected ==
    Collected /\ Len(data.rows) < MinObservations
        => DOMAIN stats = {} /\ DOMAIN models = {}

ZeroVariance(d) ==
    \/ SpreadN(Col(d.rows, "DJI_Close")) = 0
    \/ SpreadN(Col(d.rows, "CO2_Level")) = 0

\* C13: compute_correlation on a series of zero variance signals a
\* degenerate-input error and returns no number.
C13_ZeroVarianceSignalled ==
    \A i \in 1..Len(calls) :
        calls[i].method = "compute_correlation" /\ ZeroVariance(data)
            => calls[i].result.error = "DegenerateInputError"

ConstantPredictor(d) == SpreadN(Col(d.rows, "CO2_Level")) = 0

\* C14: run_ols_regression with a constant CO2_Level signals a singular
\* design matrix and returns no estimate.
C14_SingularDesignSignalled ==
    \A i \in 1..Len(calls) :
        calls[i].method = "run_ols_regression" /\ ConstantPredictor(data)
            => calls[i].result.error = "SingularDesignMatrixError"

\* C15: every weight run_wls_regression uses is finite, a zero residual
\* included.
C15_WeightsFinite ==
    \A i \in 1..Len(calls) :
        calls[i].method = "run_wls_regression"
            => \A k \in 1..Len(calls[i].result.weights) :
                   ~calls[i].result.weights[k].inf

InLog(tag) == \E i \in 1..Len(log) : log[i] = tag

StatsKeys ==
    {"descriptive", "normality", "stationarity", "correlation",
     "heteroscedasticity", "autocorrelation"}

FullyPopulated ==
    /\ DOMAIN stats = StatsKeys
    /\ "ols" \in DOMAIN models
    /\ stats["heteroscedasticity"].has_heteroscedasticity => "wls" \in DOMAIN models

StepTags ==
    {"collected", "descriptive", "normality", "stationarity", "correlation", "ols",
     "heteroscedasticity", "autocorrelation", "wls", "visualizations", "report",
     "success"}

\* C16: an error in a step aborts the run: the error is the last thing that
\* happens (nothing runs after it, no step runs twice), and the report is
\* only ever generated from a fully populated stats/models record.
C16_ErrorAborts ==
    /\ InLog("error") =>
           /\ pc = "exited" /\ exit_code = {1}
           /\ Len(log) >= 2
           /\ log[Len(log) - 1] = "error" /\ log[Len(log)] = "fatal"
           /\ ~InLog("report") /\ ~InLog("success")
    /\ \A i, j \in 1..Len(log) : log[i] \in StepTags /\ log[i] = log[j] => i = j
    /\ pc = "report" \/ InLog("report") => FullyPopulated

\* an error raised by a statistical step in the middle of the analysis
C16_Witness ==
    /\ InLog("error")
    /\ "correlation" \in DOMAIN stats
    /\ "ols" \notin DOMAIN models
    /\ pc = "exited"

HasMissing(frame) == \E i \in 1..Len(frame) : ~RowComplete(frame[i])

\* C17: input with a missing value is rejected before the statistics: no
\* statistical result is computed in a run whose input had one.
C17_MissingInputRejected ==
    HasMissing(raw) => DOMAIN stats = {} /\ DOMAIN models = {}

CompleteRows(frame) == {i \in 1..Len(frame) : RowComplete(frame[i])}

\* C18: the cleaned dataset has no missing value, has as many rows as the
\* merged dataset has complete rows, and is those rows in their order.
C18_CleanedIsCompleteRows ==
    Collected =>
        /\ ~HasMissing(data.rows)
        /\ Len(data.rows) = Cardinality(CompleteRows(raw))
        /\ \E at \in [1..Len(data.rows) -> CompleteRows(raw)] :
               /\ \A i \in 1..Len(data.rows) : data.rows[i] = raw[at[i]]
               /\ \A i, j \in 1..Len(data.rows) : i < j => at[i] < at[j]

\* five merged rows, two of them with a missing value, cleaned to three
C18_Witness ==
    /\ raw = GappyFrame
    /\ Len(data.rows) = 3
    /\ pc = "descriptive"

\* C19 as stated: one OLS estimation in a run.
C19_OlsEstimatedOnce == StatisticsDone => ols_fits = 1

\* C19: OLS is estimated once by the OLS step and once more inside each of
\* test_heteroscedasticity, test_autocorrelation and run_wls_regression
\* (three times, four with WLS); every one of these fits is of the same
\* data and equals the stored models['ols'], residuals included.
C19_OlsRefitSameResiduals ==
    /\ StatisticsDone =>
           /\ ols_fits = 3 + wls_fits
           /\ wls_fits = IF "wls" \in DOMAIN models THEN 1 ELSE 0
           /\ DOMAIN used_fit =
                  {"heteroscedasticity", "autocorrelation"}
                      \cup (IF "wls" \in DOMAIN models THEN {"wls"} ELSE {})
    /\ \A c \in DOMAIN used_fit :
           /\ "ols" \in DOMAIN models
           /\ used_fit[c] = models["ols"]
           /\ used_fit[c].resid = models["ols"].resid

\* a run with WLS: four OLS fits
C19_Witness ==
    /\ pc = "visualizations"
    /\ ols_fits = 4
    /\ "wls" \in DOMAIN used_fit

StepOrder ==
    <<"descriptive", "normality", "stationarity", "correlation", "ols",
      "heteroscedasticity", "autocorrelation">>

IsStep(tag) ==
    tag \in {"descriptive", "normality", "stationarity", "correlation", "ols",
             "heteroscedasticity", "autocorrelation", "wls", "visualizations", "report"}

IsPrefix(a, b) == Len(a) <= Len(b) /\ a = SubSeq(b, 1, Len(a))

\* C20: the steps complete in the fixed order, WLS (when it runs) after the
\* autocorrelation diagnostics; the WLS branch is decided only with the
\* heteroscedasticity flag present and WLS runs only with it set; charts and
\* report start only after every statistical step is done.
C20_StepOrder ==
    LET done == SelectSeq(log, IsStep)
    IN  /\ \/ IsPrefix(done, StepOrder \o <<"wls", "visualizations", "report">>)
           \/ IsPrefix(done, StepOrder \o <<"visualizations", "report">>)
        /\ pc = "wls" \/ InLog("wls") => "heteroscedasticity" \in DOMAIN stats
        /\ InLog("wls") => stats["heteroscedasticity"].has_heteroscedasticity
        /\ pc \in {"visualizations", "report"} \/ InLog("visualizations") =>
               /\ IsPrefix(StepOrder, done)
               /\ FullyPopulated

\* a run with WLS about to generate its report
C20_Witness ==
    /\ pc = "report"
    /\ SelectSeq(log, IsStep) = StepOrder \o <<"wls", "visualizations">>

\* C21: no analyzer method changes data, X or y: they stay what the
\* constructor made them, and a method called again with the same argument
\* returns what it returned before, whatever was called in between.
C21_AnalyzerStateless ==
    /\ [][data' = data /\ analyzer' = analyzer]_vars
    /\ [](/\ analyzer = prepare_regression_data(data)
          /\ \A i, j \in 1..Len(calls) :
                 calls[i].method = calls[j].method /\ calls[i].argument = calls[j].argument
                     => calls[i].result = calls[j].result /\ calls[i].sampled = calls[j].sampled)

\* a sub-sampling test_normality before and after a WLS fit
C21_Witness ==
    /\ Len(calls) = 3
    /\ data.rows = LongFrame
    /\ calls[1].method = "test_normality" /\ calls[1].argument = {3}
    /\ calls[2].method = "run_wls_regression"
    /\ calls[3].method = "test_normality" /\ calls[3].argument = {3}
    /\ calls[3].result = calls[1].result
    /\ analyzer.y = Col(LongFrame, "DJI_Close")

\* the frame with its two series exchanged
Swapped(d) ==
    [d EXCEPT !.rows = [i \in 1..Len(d.rows) |->
                           Row(d.rows[i].Date, d.rows[i].CO2_Level, d.rows[i].DJI_Close)]]

\* the coefficient cov / sqrt(var_dji * var_co2), by its numerator and the
\* square of its denominator
Coefficient(r) == [num |-> r.cov, den2 |-> r.var_dji * r.var_co2]

\* C22: on series of non-zero variance the Pearson coefficient lies in
\* [-1, 1] (cov^2 <= var_dji * var_co2) and is the same when the two series
\* are exchanged.
C22_CorrelationBoundedSymmetric ==
    \A i \in 1..Len(calls) :
        calls[i].method = "compute_correlation" /\ ~ZeroVariance(data)
            => LET r == calls[i].result
               IN  /\ ~r.nan
                   /\ Coefficient(r).den2 > 0
                   /\ Coefficient(r).num * Coefficient(r).num <= Coefficient(r).den2
                   /\ Coefficient(compute_correlation(Swapped(data))) = Coefficient(r)

\* a negative coefficient strictly inside the interval
C22_Witness ==
    \E i \in 1..Len(calls) :
        /\ calls[i].method = "compute_correlation"
        /\ ~ZeroVariance(data)
        /\ calls[i].result.cov < 0
        /\ calls[i].result.cov * calls[i].result.cov
               < calls[i].result.var_dji * calls[i].result.var_co2

\* C23: every OLS fit the analyzer returns has two parameters, the constant
\* and the CO2 coefficient, and an R-squared in [0, 1].
C23_TwoParametersUnitRSquared ==
    \A i \in 1..Len(calls) :
        calls[i].method = "run_ols_regression"
            => LET fit == calls[i].result
               IN  /\ fit.exog = <<"const", "CO2_Level">>
                   /\ ~fit.rsquared.nan
                   /\ 0 <= fit.rsquared.num
                   /\ fit.rsquared.num <= fit.rsquared.den

\* C24: the residuals of an OLS fit on the intercept and a non-constant
\* CO2_Level sum to zero and are orthogonal to CO2_Level.
C24_ResidualsOrthogonal ==
    \A i \in 1..Len(calls) :
        calls[i].method = "run_ols_regression" /\ ~ConstantPredictor(data)
            => LET e == calls[i].result.resid
               IN  /\ calls[i].result.exog = <<"const", "CO2_Level">>
                   /\ Len(e) = Len(data.rows)
                   /\ Sum(e) = 0
                   /\ Dot(e, Col(data.rows, "CO2_Level")) = 0

\* a fit that leaves residuals
C24_Witness ==
    \E i \in 1..Len(calls) :
        /\ calls[i].method = "run_ols_regression"
        /\ ~ConstantPredictor(data)
        /\ \E k \in 1..Len(calls[i].result.resid) : calls[i].result.resid[k] # 0

\* a <= b on two statistics that are not NaN (denominators are positive)
StatLeq(a, b) == a.num * b.den <= b.num * a.den

\* C25: compute_descriptive_stats returns one record for DJI and one for
\* CO2, each with exactly the eight statistics mean, std, var (the
\* variance), min, max, median, q1 and q3; on a series of two values or
\* more each is a number, with min <= q1 <= median <= q3 <= max and a
\* variance that is not negative.
C25_EightStatistics ==
    \A i \in 1..Len(calls) :
        calls[i].method = "compute_descriptive_stats"
            => LET r == calls[i].result
               IN  /\ DOMAIN r = {"DJI", "CO2"}
                   /\ \A s \in DOMAIN r :
                          /\ DOMAIN r[s] = DescriptiveKeys
                          /\ Cardinality(DOMAIN r[s]) = 8
                          /\ Len(data.rows) >= 2 =>
                                 /\ \A k \in DescriptiveKeys : ~r[s][k].nan
                                 /\ StatLeq(r[s].min, r[s].q1)
                                 /\ StatLeq(r[s].q1, r[s].median)
                                 /\ StatLeq(r[s].median, r[s].q3)
                                 /\ StatLeq(r[s].q3, r[s].max)
                                 /\ r[s].var.num >= 0 /\ r[s].var.den > 0

\* four values 1, 3, 2, 3: the first quartile is interpolated to 7/4
C25_Witness ==
    \E i \in 1..Len(calls) :
        /\ calls[i].method = "compute_descriptive_stats"
        /\ Len(data.rows) = 4
        /\ calls[i].result.DJI.q1 = Stat(7, 4)
        /\ calls[i].result.DJI.median = Stat(10, 4)

\* C26: compute_descriptive_stats returns no record for a frame without
\* rows.
C26_EmptyInputRejected ==
    \A i \in 1..Len(calls) :
        calls[i].method = "compute_descriptive_stats" => data.rows # <<>>

\* C27: test_normality hands shapiro min(sample_size, N) observations,
\* no observation twice; all of them, each once, when N <= sample_size,
\* fewer than N only when N > sample_size.
C27_SampleWithoutReplacement ==
    \A i \in 1..Len(calls) :
        calls[i].method = "test_normality"
            => LET sampled == calls[i].sampled
                   n == Len(data.rows)
               IN  \A sample_size \in calls[i].argument :
                       /\ Len(sampled) = Min(sample_size, n)
                       /\ \A k \in 1..Len(sampled) : sampled[k] \in 1..n
                       /\ \A k, l \in 1..Len(sampled) : sampled[k] = sampled[l] => k = l
                       /\ n <= sample_size => {sampled[k] : k \in 1..Len(sampled)} = 1..n
                       /\ Len(sampled) < n <=> n > sample_size

\* the default cap on four rows: all four observations; and a cap of three
\* on the same rows: three of them
C27_Witness ==
    /\ Len(data.rows) = 4
    /\ \E i \in 1..Len(calls) :
           /\ calls[i].method = "test_normality"
           /\ calls[i].argument = {DefaultSampleSize}
           /\ Len(calls[i].sampled) = 4
    /\ \E i \in 1..Len(calls) :
           /\ calls[i].method = "test_normality"
           /\ calls[i].argument = {3}
           /\ Len(calls[i].sampled) = 3

\* collect_all_data has returned before the i-th call of the client
CompletedBefore(i) ==
    \E k \in 1..(i - 1) :
        collector_log[k].call = "collect_all_data" /\ collector_log[k].error = "none"

\* C28: get_data_summary raises ValueError as long as no collect_all_data
\* call has returned; df_merged is assigned by the last statement of
\* collect_all_data only, so a download, merge or save that raises leaves
\* it as it was.
C28_SummaryNeedsCollectedData ==
    /\ [](/\ ~CompletedBefore(Len(collector_log) + 1) => df_merged = {}
          /\ \A i \in 1..Len(collector_log) :
                 collector_log[i].call = "get_data_summary" /\ ~CompletedBefore(i)
                     => collector_log[i].error = "ValueError")
    /\ [][df_merged' # df_merged => collector_pc = "assign"]_vars

\* a collection that failed at the save, then a summary that raised
C28_Witness ==
    /\ Len(collector_log) = 2
    /\ collector_log[1] = [call |-> "collect_all_data", error |-> "save"]
    /\ collector_log[2] = [call |-> "get_data_summary", error |-> "ValueError"]
    /\ df_merged = {}

HasWlsSection(r) ==
    \E k \in 1..Len(r.regression_sections) : r.regression_sections[k] = "wls"

\* C29: the report has a WLS section exactly when its heteroscedasticity
\* chapter concludes that heteroscedasticity is present and WLS will be
\* applied; when the report is rendered, 'wls' is in models exactly when
\* the aggregate flag is true.
C29_ReportMatchesBranch ==
    /\ pc = "report" =>
           ("wls" \in DOMAIN models <=> stats["heteroscedasticity"].has_heteroscedasticity)
    /\ \A r \in report :
           /\ HasWlsSection(r) <=>
                  r.heteroscedasticity_conclusion = HeteroscedasticityConclusion(
                      [heteroscedasticity |-> [has_heteroscedasticity |-> TRUE]])
           /\ HasWlsSection(r) <=> stats["heteroscedasticity"].has_heteroscedasticity
           /\ r.regression_sections[1] = "ols"

\* a rendered report with both regression sections
C29_Witness ==
    /\ report # {}
    /\ \A r \in report : HasWlsSection(r)
    /\ ~stats["heteroscedasticity"].breusch_pagan.has_heteroscedasticity

============================================================================
